---- MODULE Spec2Model ----
(***************************************************************************)
(* Model of the capture/upload coordinator of the EMR Assistant extension  *)
(* (src/extension/background/background.js, class BackgroundManager).      *)
(*                                                                         *)
(* One step of the model is one JavaScript task: an event handler (a       *)
(* message from the UI, a timer callback, the completion of a storage      *)
(* write, of a screenshot or of an HTTP call) runs to its next real        *)
(* suspension, and then the microtask queue is run until it is empty.      *)
(* A suspended async call is a frame in `inflight`: what it awaits and     *)
(* the stack of continuations to resume.  Frames complete in any order.    *)
(***************************************************************************)
EXTENDS Integers, Sequences, FiniteSets, Bags, TLC

VARIABLES
    state,        \* this.state of BackgroundManager
    heap,         \* the screenshotData objects, by reference
    timers,       \* armed setInterval timers: records [id, period]
    stored,       \* chrome.storage.local: the persisted keys
    inflight,     \* bag of suspended async calls awaiting I/O
    sweepTimers,  \* bag of due times of pending setTimeout(scheduleRetry)
    probeTimer,   \* due time of the pending setTimeout(checkServerConnection)
    now,          \* Date.now(), in seconds
    out,          \* what the last task emitted: responses, notifications, events
    hist          \* history of the run, read by the properties only

vars == <<state, heap, timers, stored, inflight, sweepTimers, probeTimer, now, out, hist>>

----------------------------------------------------------------------------
(* Bounds of the model. *)
MaxTimers == 3       \* interval timers armed at once (leaked ones included)
MaxRequests == 2     \* control requests in flight at once
MaxHandled == 3      \* control requests handled in one run, overlapping
MaxHandledSeq == 8   \* control requests handled in one run, one after another
MaxHandledSet == 3   \* the same, with updateSettings among them
MaxFiredCap == 4     \* capture ticks fired in one run of the capture pipeline
PreCaptured == 9     \* captures made before such a run starts
MaxFailedCap == 2    \* uploads that fail in such a run
MaxFiredOff == 4     \* capture ticks fired in one run with the server unreachable
MaxFiredStats == 2   \* capture ticks fired in one run with statistics requests
MaxHandledStats == 3 \* requests handled before and in such a run
MaxFiredRetry == 2   \* capture ticks fired in one run of the retry machinery
MaxFailed == 2       \* uploads that fail in such a run
MaxTimeStop == 5     \* seconds a run with a stopCapture request lasts
MaxHandledStop == 2  \* requests handled before and in such a run
MaxFiredStop == 1    \* capture ticks fired in such a run
MaxTicksStop == 1    \* capture ticks in flight at once in such a run
MaxTime == 10        \* seconds such a run lasts
MaxMisses == 2       \* capture ticks skipped or failed in one run
MaxTicks == 2        \* capture ticks in flight at once
MaxTimeProbe == 31   \* seconds a run over more than one probe period lasts
MaxFiredProbe == 1   \* capture ticks fired in such a run
MaxFailedProbe == 1  \* uploads that fail in such a run
MaxTimeDrain == 40   \* seconds a run with a drain beside a sweep retry lasts
MaxFiredDrain == 2   \* capture ticks fired in such a run
MaxFailedDrain == 3  \* uploads that fail in such a run
MaxHandledSwap == 4  \* requests handled before and in a run with an interval swap
MaxTimeDown == 65    \* seconds a run with the server down lasts
MaxFiredDown == 3    \* capture ticks fired in such a run
MaxHandledReply == 2 \* requests of a run with a message that has no settings
MaxHandledBook == 2  \* requests beside the capture pipeline
MaxFiredBook == 1    \* ticks of such a run
MaxFailedBook == 1   \* failed POSTs of such a run
MaxTimeBook == 5     \* seconds of such a run

(* Program constants. *)
DefaultInterval == 1500   \* captureInterval, ms
DefaultMaxRetries == 3
KeepScreenshots == 10     \* processScreenshot keeps the last 10
SweepPeriod == 5          \* setTimeout(scheduleRetry, 5000), seconds
ProbePeriod == 30         \* setTimeout(checkServerConnection, 30000), seconds

UNDEF == -1               \* JavaScript undefined / null of a numeric field
NoTimer == 0              \* captureTimer: null

(* x || 0 *)
OrZero(x) == IF x = UNDEF THEN 0 ELSE x

RECURSIVE Pow2(_)
Pow2(n) == IF n = 0 THEN 1 ELSE 2 * Pow2(n - 1)

Known == {"getState", "startCapture", "stopCapture", "updateSettings",
          "getSettings", "getScreenshotStats"}

(* What an updateSettings request may carry (UNDEF: the key is absent):    *)
(* 3 is what the options form sends for "3 seconds" (options.js 108, 143), *)
(* 3000 a caller that passes milliseconds.                                  *)
SentIntervals == {UNDEF, 3, 3000}

(* the options form always sends maxRetries (options.js 111), 1..10 *)
SentMaxRetries == {2}

(* maxRetries values the options page has persisted, or the default *)
StoredMaxRetries == {1, DefaultMaxRetries}

----------------------------------------------------------------------------
(* The machine a task works on: the variables, plus the microtask queue. *)
Cur == [state |-> state, heap |-> heap, timers |-> timers, stored |-> stored,
        inflight |-> inflight, sweepTimers |-> sweepTimers,
        probeTimer |-> probeTimer, hist |-> hist,
        micro |-> <<>>, out |-> <<>>]

Emit(M, ev) == [M EXCEPT !.out = Append(@, ev)]

(* notifyPopup: fire and forget; msg is a record with e = "notify" *)
notifyPopup(M, msg) == Emit(M, msg)

(* sendResponse of handleMessage; resp is a record with e = "response" *)
sendResponse(M, resp) == Emit(M, resp)

Suspend(M, frame) == [M EXCEPT !.inflight = @ (+) SetToBag({frame})]

(* An async function returns: its awaiting caller resumes one microtask later. *)
Return(M, stack) == IF stack = <<>> THEN M ELSE [M EXCEPT !.micro = Append(@, stack)]

(* An async function called by handleMessage throws: the await of lines    *)
(* 82, 87, 92 rejects and handleMessage resumes in its catch, line 122.    *)
Throw(M, stack) ==
    IF stack = <<>> THEN M
    ELSE [M EXCEPT !.micro = Append(@, <<[Head(stack) EXCEPT !.pc = "handleMessage.catch"]>>
                                       \o Tail(stack))]

Persisted(s) == [isCapturing |-> s.isCapturing, captureInterval |-> s.captureInterval,
                 screenshotCount |-> s.screenshotCount, settings |-> s.settings]

(* saveState: the values are read when chrome.storage.local.set is called; *)
(* a failed write is logged and swallowed (lines 54-56).                    *)
saveState(M, stack) ==
    Suspend(M, [await |-> "save", snap |-> Persisted(M.state), stack |-> stack])

(* setInterval returns a handle no armed timer has. *)
FreeTimerId(M) == CHOOSE i \in 1..(Cardinality(M.timers) + 1) : \A t \in M.timers : t.id # i

----------------------------------------------------------------------------
(* a variant without the guard of lines 133-136 *)
startCaptureAlways(M, stack) ==
    saveState([M EXCEPT !.state.isCapturing = TRUE, !.hist.lastToggle = "start"],
              <<[pc |-> "startCapture.afterSave"]>> \o stack)

(* startCapture, lines 132-146: to the await of saveState.  The catch of   *)
(* lines 154-158 is never entered: saveState swallows the storage error,   *)
(* and setInterval and notifyPopup do not throw.                            *)
startCapture(M, stack) ==
    IF M.state.isCapturing
    THEN Return(M, stack)
    ELSE saveState([M EXCEPT !.state.isCapturing = TRUE, !.hist.lastToggle = "start"],
                   <<[pc |-> "startCapture.afterSave"]>> \o stack)

(* lines 142-153: setInterval at the current captureInterval, notify *)
startCaptureAfterSave(M, stack) ==
    LET id == FreeTimerId(M)
        M1 == [M EXCEPT !.timers = @ \cup {[id |-> id, period |-> M.state.captureInterval]},
                        !.state.captureTimer = id]
    IN  Return(notifyPopup(M1, [e |-> "notify", action |-> "statusUpdate",
                                isCapturing |-> TRUE]), stack)

(* stopCapture, lines 161-169 *)
stopCapture(M, stack) ==
    IF ~M.state.isCapturing
    THEN Return(M, stack)
    ELSE saveState([M EXCEPT !.state.isCapturing = FALSE, !.hist.lastToggle = "stop"],
                   <<[pc |-> "stopCapture.afterSave"]>> \o stack)

(* a variant that also empties the queue and cancels the pending sweeps *)
stopCaptureAfterSaveFlush(M, stack) ==
    LET M1 == IF M.state.captureTimer # NoTimer
              THEN [M EXCEPT !.timers = {t \in @ : t.id # M.state.captureTimer},
                             !.state.captureTimer = NoTimer,
                             !.state.uploadQueue = <<>>,
                             !.sweepTimers = EmptyBag]
              ELSE M
    IN  Return(notifyPopup(M1, [e |-> "notify", action |-> "statusUpdate",
                                isCapturing |-> FALSE]), stack)

(* lines 171-183: clearInterval of the handle held in captureTimer, notify *)
stopCaptureAfterSave(M, stack) ==
    LET M1 == IF M.state.captureTimer # NoTimer
              THEN [M EXCEPT !.timers = {t \in @ : t.id # M.state.captureTimer},
                             !.state.captureTimer = NoTimer]
              ELSE M
    IN  Return(notifyPopup(M1, [e |-> "notify", action |-> "statusUpdate",
                                isCapturing |-> FALSE]), stack)

(* message.settings of a message that has no settings: undefined *)
Absent == [absent |-> TRUE]

(* { ...this.state.settings, ...newSettings }: a key the request carries   *)
(* wins; spreading undefined adds no key                                   *)
MergeSettings(old, new) ==
    IF new = Absent THEN old ELSE
    [maxRetries |-> IF new.maxRetries # UNDEF THEN new.maxRetries ELSE old.maxRetries,
     captureInterval |-> IF new.captureInterval # UNDEF THEN new.captureInterval
                         ELSE old.captureInterval]

(* updateSettings, lines 401-403 *)
updateSettings(M, newSettings, stack) ==
    saveState([M EXCEPT !.state.settings = MergeSettings(@, newSettings)],
              <<[pc |-> "updateSettings.afterSave", newSettings |-> newSettings]>> \o stack)

(* lines 405-407; newSettings.captureInterval of undefined is a TypeError *)
updateSettingsAfterSave(M, newSettings, stack) ==
    IF newSettings = Absent THEN Throw(M, stack)
    ELSE IF newSettings.captureInterval # UNDEF /\ M.state.isCapturing
    THEN stopCapture(M, <<[pc |-> "updateSettings.afterStop",
                           newSettings |-> newSettings]>> \o stack)
    ELSE Return(M, stack)

(* a variant that restarts the trigger at the interval it had *)
updateSettingsAfterStopKeep(M, newSettings, stack) == startCapture(M, stack)

(* lines 408-409 *)
updateSettingsAfterStop(M, newSettings, stack) ==
    startCapture([M EXCEPT !.state.captureInterval = newSettings.captureInterval], stack)

----------------------------------------------------------------------------
(* the head of a continuation stack names the caller of uploadScreenshot *)
Via(stack) ==
    IF stack = <<>> THEN "none"
    ELSE IF Head(stack).pc = "processScreenshot.afterUpload" THEN "capture"
    ELSE IF Head(stack).pc = "scheduleRetry.afterUpload" THEN "sweep"
    ELSE "drain"

(* a variant without the short-circuit of lines 299-303 *)
uploadScreenshotAlways(M, ref, stack) ==
    Suspend(M, [await |-> "fetch",
                stack |-> <<[pc |-> "uploadScreenshot.afterFetch", ref |-> ref]>> \o stack])

(* uploadScreenshot, lines 296-330: the short-circuit pushes the object    *)
(* itself and returns; otherwise the call suspends at fetch.               *)
uploadScreenshot(M, ref, stack) ==
    IF ~M.state.serverConnected
    THEN Return(Emit([M EXCEPT !.state.uploadQueue = Append(@, ref)],
                     [e |-> "shortCircuit", ref |-> ref, id |-> M.heap[ref].id,
                      via |-> Via(stack)]),
                stack)
    ELSE Suspend(M, [await |-> "fetch",
                     stack |-> <<[pc |-> "uploadScreenshot.afterFetch", ref |-> ref]>> \o stack])

ArmSweep(M) == [M EXCEPT !.sweepTimers = @ (+) SetToBag({now + SweepPeriod})]

(* item.retryCount >= maxRetries is false for an undefined retryCount *)
AtMaxRetries(M, o) == o.retryCount # UNDEF /\ o.retryCount >= M.state.settings.maxRetries

(* the filter of lines 372-376; Date.now() - 0 exceeds every backoff delay *)
Retryable(M, o) ==
    IF o.lastRetry = UNDEF THEN TRUE
    ELSE now - o.lastRetry >= Pow2(OrZero(o.retryCount))

(* the loop of lines 378-392 over what is left of retryableItems, to its   *)
(* next await, and lines 395-398 when the loop ends                         *)
RECURSIVE SweepLoop(_, _, _)
SweepLoop(M, items, passNow) ==
    IF items = <<>> THEN ArmSweep(M)
    ELSE LET r == Head(items)
             o == M.heap[r]
             Keep(q) == M.heap[q].id # o.id
         IN  IF AtMaxRetries(M, o)
             THEN SweepLoop(Emit([M EXCEPT !.state.uploadQueue = SelectSeq(@, Keep),
                                           !.hist.dropped = @ \cup {o.id}],
                                 [e |-> "drop", ref |-> r, id |-> o.id]),
                            Tail(items), passNow)
             ELSE uploadScreenshot(
                      Emit([M EXCEPT !.heap[r].retryCount = OrZero(o.retryCount) + 1,
                                     !.heap[r].lastRetry = passNow,
                                     !.hist.retries[o.id] = @ + 1],
                           [e |-> "retry", ref |-> r, id |-> o.id,
                            retryCount |-> OrZero(o.retryCount),
                            lastRetry |-> o.lastRetry, at |-> now,
                            connected |-> M.state.serverConnected]),
                      r,
                      <<[pc |-> "scheduleRetry.afterUpload", items |-> Tail(items),
                         now |-> passNow]>>)

(* scheduleRetry, lines 368-399 *)
scheduleRetry(M) ==
    IF Len(M.state.uploadQueue) > 0
    THEN LET Test(q) == Retryable(M, M.heap[q])
         IN  SweepLoop(M, SelectSeq(M.state.uploadQueue, Test), now)
    ELSE ArmSweep(M)

(* lines 332-344, and the catch of lines 346-365 *)
uploadScreenshotAfterFetch(M, ref, ok, stack) ==
    LET o == M.heap[ref]
        ev == [e |-> "upload", ref |-> ref, id |-> o.id, ok |-> ok, via |-> Via(stack)]
    IN  IF ok
        THEN Return(notifyPopup(Emit([M EXCEPT !.state.serverConnected = TRUE,
                                               !.hist.posted[o.id] = @ + 1], ev),
                                [e |-> "notify", action |-> "statusUpdate",
                                 serverStatus |-> "connected"]),
                    stack)
        ELSE LET copy == [o EXCEPT !.retryCount = 0, !.lastRetry = now]
                 M1 == [M EXCEPT !.heap = Append(@, copy),
                                 !.state.uploadQueue = Append(@, Len(M.heap) + 1),
                                 !.state.serverConnected = FALSE]
                 M2 == notifyPopup(Emit(M1, ev),
                                   [e |-> "notify", action |-> "statusUpdate",
                                    serverStatus |-> "disconnected"])
             IN  Return(scheduleRetry(M2), stack)

(* the loop of lines 461-469; uploadScreenshot never rejects, so the catch *)
(* of lines 464-468 is never entered                                        *)
DrainLoop(M, items, itemsToProcess) ==
    IF items = <<>> THEN M
    ELSE uploadScreenshot(M, Head(items),
                          <<[pc |-> "processUploadQueue.afterUpload", items |-> Tail(items),
                             itemsToProcess |-> itemsToProcess]>>)

(* a variant that releases the recent captures when it drains the queue *)
processUploadQueueRelease(M) ==
    IF Len(M.state.uploadQueue) = 0 THEN M
    ELSE DrainLoop([M EXCEPT !.state.uploadQueue = <<>>, !.state.screenshots = <<>>],
                   M.state.uploadQueue, M.state.uploadQueue)

(* processUploadQueue, lines 452-470 *)
processUploadQueue(M) ==
    IF Len(M.state.uploadQueue) = 0 THEN M
    ELSE DrainLoop([M EXCEPT !.state.uploadQueue = <<>>], M.state.uploadQueue,
                   M.state.uploadQueue)

----------------------------------------------------------------------------
(* processScreenshot, lines 254-274: a new screenshotData with a fresh id *)
processScreenshot(M, stack) ==
    LET id == M.hist.captures + 1
        ref == Len(M.heap) + 1
        M1 == [M EXCEPT !.heap = Append(@, [id |-> id, retryCount |-> UNDEF,
                                            lastRetry |-> UNDEF]),
                        !.hist.captures = id,
                        !.hist.retries = Append(@, 0),
                        !.hist.posted = Append(@, 0)]
    IN  uploadScreenshot(M1, ref, <<[pc |-> "processScreenshot.afterUpload", ref |-> ref]>>
                                  \o stack)

(* a variant that evicts only when the list is longer than 10 *)
processScreenshotAfterUploadLate(M, ref, stack) ==
    LET kept == IF Len(M.state.screenshots) > KeepScreenshots
                THEN Tail(M.state.screenshots) ELSE M.state.screenshots
    IN  Return([M EXCEPT !.state.screenshots = Append(kept, ref),
                         !.hist.appended = Append(@, M.heap[ref].id)],
               stack)

(* lines 276-289: keep only the last 10 *)
processScreenshotAfterUpload(M, ref, stack) ==
    LET kept == IF Len(M.state.screenshots) >= KeepScreenshots
                THEN Tail(M.state.screenshots) ELSE M.state.screenshots
    IN  Return([M EXCEPT !.state.screenshots = Append(kept, ref),
                         !.hist.appended = Append(@, M.heap[ref].id)],
               stack)

(* a variant whose catch also disarms the trigger *)
captureScreenshotAfterCaptureDisarm(M, result) ==
    IF result \in {"noTab", "badUrl"}
    THEN Emit([M EXCEPT !.hist.misses = @ + 1], [e |-> "skipped", why |-> result])
    ELSE IF result \in {"throws", "null"}
    THEN notifyPopup([M EXCEPT !.hist.misses = @ + 1, !.timers = {},
                               !.state.captureTimer = NoTimer],
                     [e |-> "notify", action |-> "error"])
    ELSE processScreenshot(Emit(M, [e |-> "captured", id |-> M.hist.captures + 1]),
                           <<[pc |-> "captureScreenshot.afterProcess"]>>)

(* a variant that treats a tab it cannot capture as a failed capture *)
captureScreenshotAfterCaptureLoud(M, result) ==
    IF result \in {"noTab", "badUrl", "throws", "null"}
    THEN notifyPopup(Emit([M EXCEPT !.hist.misses = @ + 1],
                          [e |-> "skipped", why |-> result]),
                     [e |-> "notify", action |-> "error"])
    ELSE processScreenshot(Emit(M, [e |-> "captured", id |-> M.hist.captures + 1]),
                           <<[pc |-> "captureScreenshot.afterProcess"]>>)

(* captureScreenshot, lines 196-221 and the catch of lines 245-251, on the *)
(* result of chrome.tabs.query and chrome.tabs.captureVisibleTab            *)
captureScreenshotAfterCapture(M, result) ==
    IF result \in {"noTab", "badUrl"}
    THEN Emit([M EXCEPT !.hist.misses = @ + 1], [e |-> "skipped", why |-> result])
    ELSE IF result \in {"throws", "null"}
    THEN notifyPopup([M EXCEPT !.hist.misses = @ + 1], [e |-> "notify", action |-> "error"])
    ELSE processScreenshot(Emit(M, [e |-> "captured", id |-> M.hist.captures + 1]),
                           <<[pc |-> "captureScreenshot.afterProcess"]>>)

(* a variant that counts from the persisted screenshotCount *)
captureScreenshotAfterProcessStale(M, stack) ==
    saveState([M EXCEPT !.state.lastCaptureTime = now,
                        !.state.screenshotCount = M.stored.screenshotCount + 1],
              <<[pc |-> "captureScreenshot.afterSave"]>> \o stack)

(* lines 223-225 *)
captureScreenshotAfterProcess(M, stack) ==
    saveState([M EXCEPT !.state.lastCaptureTime = now,
                        !.state.screenshotCount = @ + 1],
              <<[pc |-> "captureScreenshot.afterSave"]>> \o stack)

(* lines 227-243 *)
captureScreenshotAfterSave(M, stack) ==
    Return(notifyPopup(M, [e |-> "notify", action |-> "captureComplete",
                           timestamp |-> M.state.lastCaptureTime,
                           screenshotCount |-> M.state.screenshotCount]),
           stack)

(* a variant that probes again only after a GET that was answered *)
checkServerConnectionAfterFetchAnswered(M, result) ==
    LET M1 == [M EXCEPT !.state.serverConnected = (result = "ok")]
        M2 == IF result = "ok" /\ Len(M1.state.uploadQueue) > 0
              THEN processUploadQueue(Emit(M1, [e |-> "drain",
                                                items |-> M1.state.uploadQueue]))
              ELSE M1
        M3 == notifyPopup(M2, [e |-> "notify", action |-> "statusUpdate",
                               serverStatus |-> IF M2.state.serverConnected
                                                THEN "connected" ELSE "disconnected"])
    IN  IF result = "error" THEN M3 ELSE [M3 EXCEPT !.probeTimer = now + ProbePeriod]

(* checkServerConnection, lines 424-449, on the result of the health GET *)
checkServerConnectionAfterFetch(M, result) ==
    LET M1 == [M EXCEPT !.state.serverConnected = (result = "ok")]
        M2 == IF result = "ok" /\ Len(M1.state.uploadQueue) > 0
              THEN processUploadQueue(Emit(M1, [e |-> "drain",
                                                items |-> M1.state.uploadQueue]))
              ELSE M1
        M3 == notifyPopup(M2, [e |-> "notify", action |-> "statusUpdate",
                               serverStatus |-> IF M2.state.serverConnected
                                                THEN "connected" ELSE "disconnected"])
    IN  [M3 EXCEPT !.probeTimer = now + ProbePeriod]

(* a default case that answers nothing *)
handleUnknownSilent(M, message) == M

(* the default case of handleMessage, lines 117-121 *)
handleUnknown(M, message) ==
    sendResponse(M, [e |-> "response", to |-> message.action,
                     success |-> FALSE, error |-> "Unknown action"])

(* a variant that reports the persisted screenshotCount *)
ScreenshotStatsStored(M) ==
    [e |-> "response", to |-> "getScreenshotStats", success |-> TRUE,
     totalScreenshots |-> M.stored.screenshotCount,
     screenshotsInMemory |-> Len(M.state.screenshots),
     uploadQueueSize |-> Len(M.state.uploadQueue),
     lastCaptureTime |-> M.state.lastCaptureTime,
     isCapturing |-> M.state.isCapturing,
     serverConnected |-> M.state.serverConnected]

(* the response to getScreenshotStats, lines 103-115 *)
ScreenshotStats(M) ==
    [e |-> "response", to |-> "getScreenshotStats", success |-> TRUE,
     totalScreenshots |-> M.state.screenshotCount,
     screenshotsInMemory |-> Len(M.state.screenshots),
     uploadQueueSize |-> Len(M.state.uploadQueue),
     lastCaptureTime |-> M.state.lastCaptureTime,
     isCapturing |-> M.state.isCapturing,
     serverConnected |-> M.state.serverConnected]


(* a variant whose getState also pushes the status to the popup *)
handleMessagePush(M, message) ==
    LET respond == <<[pc |-> "handleMessage.respond", action |-> message.action]>>
    IN  CASE message.action = "getState" ->
                notifyPopup(
                    sendResponse(M, [e |-> "response", to |-> "getState", success |-> TRUE,
                                     isCapturing |-> M.state.isCapturing,
                                     screenshotCount |-> M.state.screenshotCount,
                                     serverStatus |-> IF M.state.serverConnected
                                                      THEN "connected" ELSE "disconnected",
                                     lastUpdate |-> M.state.lastCaptureTime]),
                    [e |-> "notify", action |-> "statusUpdate",
                     serverStatus |-> IF M.state.serverConnected
                                      THEN "connected" ELSE "disconnected"])
          [] message.action = "startCapture" -> startCapture(M, respond)
          [] message.action = "stopCapture" -> stopCapture(M, respond)
          [] message.action = "updateSettings" -> updateSettings(M, message.settings, respond)
          [] message.action = "getSettings" ->
                sendResponse(M, [e |-> "response", to |-> "getSettings", success |-> TRUE,
                                 settings |-> M.state.settings])
          [] message.action = "getScreenshotStats" -> sendResponse(M, ScreenshotStats(M))
          [] OTHER -> handleUnknown(M, message)

(* handleMessage, lines 66-130 *)
handleMessage(M, message) ==
    LET respond == <<[pc |-> "handleMessage.respond", action |-> message.action]>>
    IN  CASE message.action = "getState" ->
                sendResponse(M, [e |-> "response", to |-> "getState", success |-> TRUE,
                                 isCapturing |-> M.state.isCapturing,
                                 screenshotCount |-> M.state.screenshotCount,
                                 serverStatus |-> IF M.state.serverConnected
                                                  THEN "connected" ELSE "disconnected",
                                 lastUpdate |-> M.state.lastCaptureTime])
          [] message.action = "startCapture" -> startCapture(M, respond)
          [] message.action = "stopCapture" -> stopCapture(M, respond)
          [] message.action = "updateSettings" -> updateSettings(M, message.settings, respond)
          [] message.action = "getSettings" ->
                sendResponse(M, [e |-> "response", to |-> "getSettings", success |-> TRUE,
                                 settings |-> M.state.settings])
          [] message.action = "getScreenshotStats" -> sendResponse(M, ScreenshotStats(M))
          [] OTHER -> handleUnknown(M, message)

(* lines 83, 88, 93: the response after the awaited call *)
handleMessageRespond(M, action) ==
    sendResponse(M, [e |-> "response", to |-> action, success |-> TRUE])

(* a catch that only logs the error *)
handleMessageCatchSilent(M, action) == M

(* the catch of handleMessage, lines 122-128 *)
handleMessageCatch(M, action) ==
    sendResponse(M, [e |-> "response", to |-> action, success |-> FALSE,
                     error |-> "TypeError"])

(* Resume a suspended call at the head of its continuation stack. *)
Resume(M, stack, result) ==
    LET top == Head(stack)
        rest == Tail(stack)
    IN  CASE top.pc = "startCapture.afterSave" -> startCaptureAfterSave(M, rest)
          [] top.pc = "stopCapture.afterSave" -> stopCaptureAfterSave(M, rest)
          [] top.pc = "updateSettings.afterSave" ->
                updateSettingsAfterSave(M, top.newSettings, rest)
          [] top.pc = "updateSettings.afterStop" ->
                updateSettingsAfterStop(M, top.newSettings, rest)
          [] top.pc = "handleMessage.respond" -> handleMessageRespond(M, top.action)
          [] top.pc = "handleMessage.catch" -> handleMessageCatch(M, top.action)
          [] top.pc = "uploadScreenshot.afterFetch" ->
                uploadScreenshotAfterFetch(M, top.ref, result = "ok", rest)
          [] top.pc = "scheduleRetry.afterUpload" -> SweepLoop(M, top.items, top.now)
          [] top.pc = "processUploadQueue.afterUpload" ->
                DrainLoop(M, top.items, top.itemsToProcess)
          [] top.pc = "processScreenshot.afterUpload" ->
                processScreenshotAfterUpload(M, top.ref, rest)
          [] top.pc = "captureScreenshot.afterProcess" ->
                captureScreenshotAfterProcess(M, rest)
          [] top.pc = "captureScreenshot.afterSave" -> captureScreenshotAfterSave(M, rest)

(* The microtask checkpoint that ends every task. *)
RECURSIVE RunMicrotasks(_)
RunMicrotasks(M) ==
    IF M.micro = <<>> THEN M
    ELSE RunMicrotasks(Resume([M EXCEPT !.micro = Tail(@)], Head(M.micro), "none"))

Commit(M) ==
    LET F == RunMicrotasks(M)
    IN  /\ Cardinality(F.timers) <= MaxTimers
        /\ state' = F.state
        /\ heap' = F.heap
        /\ timers' = F.timers
        /\ stored' = F.stored
        /\ inflight' = F.inflight
        /\ sweepTimers' = F.sweepTimers
        /\ probeTimer' = F.probeTimer
        /\ out' = F.out
        /\ hist' = F.hist
        /\ now' = now

----------------------------------------------------------------------------
(* Frames of the bag `inflight`. *)
Frames == BagToSet(inflight)

Take(f) == [Cur EXCEPT !.inflight = @ (-) SetToBag({f})]

CountFrames(P(_)) ==
    LET some == {f \in Frames : P(f)}
    IN  BagCardinality([f \in some |-> inflight[f]])

Bottom(f) == IF f.stack = <<>> THEN "none" ELSE f.stack[Len(f.stack)].pc

IsRequest(f) == Bottom(f) = "handleMessage.respond"

IsTick(f) == f.await = "capture" \/ Bottom(f) \in {"captureScreenshot.afterProcess",
                                                    "captureScreenshot.afterSave"}

NoSettings == [maxRetries |-> UNDEF, captureInterval |-> UNDEF]

Messages(actions) ==
    {[action |-> a, settings |-> NoSettings] : a \in actions \ {"updateSettings"}}
    \cup {[action |-> "updateSettings",
           settings |-> [maxRetries |-> r, captureInterval |-> i]] :
              r \in SentMaxRetries, i \in SentIntervals,
              a \in actions \cap {"updateSettings"}}

(* chrome.runtime.onMessage, lines 60-63: a control request arrives *)
(* an updateSettings that has called its stopCapture (line 407) and not    *)
(* yet its startCapture (line 409)                                         *)
IsMidSwap(f) ==
    /\ f.await = "save"
    /\ Len(f.stack) >= 2
    /\ f.stack[1].pc = "stopCapture.afterSave"
    /\ f.stack[2].pc = "updateSettings.afterStop"

Receive(actions, maxHandled, maxInFlight) ==
    /\ hist.handled < maxHandled
    /\ CountFrames(IsRequest) < maxInFlight
    /\ \E message \in Messages(actions) :
          Commit(handleMessage(
              Emit([Cur EXCEPT !.hist.handled = @ + 1,
                               !.hist.request = [action |-> message.action,
                                                 captureInterval |->
                                                     message.settings.captureInterval,
                                                 capturing |-> state.isCapturing,
                                                 armed |-> timers,
                                                 midSwap |-> CountFrames(IsMidSwap) > 0]],
                   [e |-> "request", action |-> message.action]),
              message))

(* an updateSettings message that carries no settings arrives *)
ReceiveBare(maxHandled, maxInFlight) ==
    /\ hist.handled < maxHandled
    /\ CountFrames(IsRequest) < maxInFlight
    /\ LET message == [action |-> "updateSettings", settings |-> Absent]
       IN  Commit(handleMessage(
               Emit([Cur EXCEPT !.hist.handled = @ + 1,
                                !.hist.request = [action |-> message.action,
                                                  captureInterval |-> UNDEF,
                                                  capturing |-> state.isCapturing,
                                                  armed |-> timers,
                                                  midSwap |-> CountFrames(IsMidSwap) > 0]],
                    [e |-> "request", action |-> message.action]),
               message))

(* the chrome.storage.local.set of a saveState call settles *)
SaveDone(results) ==
    \E f \in Frames, ok \in results :
        /\ f.await = "save"
        /\ LET M == Emit([Take(f) EXCEPT !.stored = IF ok THEN f.snap ELSE @],
                         [e |-> "saved", ok |-> ok])
           IN  Commit(IF f.stack = <<>> THEN M ELSE Resume(M, f.stack, "none"))

(* an armed interval timer fires: captureScreenshot starts, lines 191-194 *)
TimerFire(maxFired, maxTicks) ==
    /\ hist.fired < maxFired
    /\ CountFrames(IsTick) < maxTicks
    /\ \E t \in timers :
          Commit(Suspend(Emit([Cur EXCEPT !.hist.fired = @ + 1],
                              [e |-> "tick", timer |-> t.id]),
                         [await |-> "capture", stack |-> <<>>]))

(* the tab query and the screenshot primitive settle *)
CaptureDone(results) ==
    \E f \in Frames, result \in results :
        /\ f.await = "capture"
        /\ result # "image" => hist.misses < MaxMisses
        /\ Commit(captureScreenshotAfterCapture(Take(f), result))

(* the POST of an upload settles: 2xx, or a failure *)
FetchDone(results, maxFailed) ==
    \E f \in Frames, result \in results :
        /\ f.await = "fetch"
        /\ result = "fail" => Len(heap) - hist.captures < maxFailed
        /\ Commit(Resume(Take(f), f.stack, result))

(* a setTimeout of scheduleRetry, lines 396-398, is due *)
SweepFire ==
    \E due \in BagToSet(sweepTimers) :
        /\ due <= now
        /\ Commit(scheduleRetry(Emit([Cur EXCEPT !.sweepTimers = @ (-) SetToBag({due})],
                                     [e |-> "sweep"])))

(* the setTimeout of checkServerConnection, lines 447-449, is due: the     *)
(* health GET of lines 417-422 is sent                                      *)
ProbeFire ==
    /\ probeTimer # UNDEF
    /\ probeTimer <= now
    /\ Commit(Suspend([Cur EXCEPT !.probeTimer = UNDEF],
                      [await |-> "health", stack |-> <<>>]))

(* the health GET settles: 2xx, non-2xx, or a network error *)
ProbeDone(results) ==
    \E f \in Frames, result \in results :
        /\ f.await = "health"
        /\ Commit(checkServerConnectionAfterFetch(
                      Emit(Take(f), [e |-> "probe", result |-> result,
                                     wasConnected |-> state.serverConnected]),
                      result))

(* time passes *)
AdvanceTime(maxTime) ==
    /\ now < maxTime
    /\ now' = now + 1
    /\ out' = <<>>
    /\ UNCHANGED <<state, heap, timers, stored, inflight, sweepTimers, probeTimer, hist>>

(* every setTimeout callback that was due has run: time passes until the  *)
(* next setTimeout (lines 396-398, 447-449) is due                         *)
PendingTimeouts ==
    BagToSet(sweepTimers) \cup (IF probeTimer # UNDEF THEN {probeTimer} ELSE {})

AwaitTimeout(maxTime) ==
    \E due \in PendingTimeouts :
        /\ now < due
        /\ due <= maxTime
        /\ \A other \in PendingTimeouts : now < other /\ due <= other
        /\ now' = due
        /\ out' = <<>>
        /\ UNCHANGED <<state, heap, timers, stored, inflight, sweepTimers, probeTimer, hist>>

----------------------------------------------------------------------------
(* The state when init() has run loadState, registered the message         *)
(* listener and sent the first health GET (lines 3-27): the defaults of    *)
(* the constructor, overwritten by the persisted keys.                      *)
InitWith(capturings, counts, maxRetries) ==
    /\ \E c \in capturings, n \in counts, r \in maxRetries :
          /\ state = [isCapturing |-> c,
                      captureInterval |-> DefaultInterval,
                      screenshotCount |-> n,
                      serverConnected |-> FALSE,
                      lastCaptureTime |-> UNDEF,
                      captureTimer |-> NoTimer,
                      uploadQueue |-> <<>>,
                      settings |-> [maxRetries |-> r, captureInterval |-> UNDEF],
                      screenshots |-> <<>>]
          /\ hist = [handled |-> 0, lastToggle |-> "none", fired |-> 0, captures |-> 0,
                     misses |-> 0, count0 |-> n, appended |-> <<>>, retries |-> <<>>, posted |-> <<>>,
                     dropped |-> {},
                     request |-> [action |-> "none", captureInterval |-> UNDEF,
                                  capturing |-> FALSE, armed |-> {},
                                  midSwap |-> FALSE]]
    /\ stored = Persisted(state)
    /\ heap = <<>>
    /\ timers = {}
    /\ inflight = SetToBag({[await |-> "health", stack |-> <<>>]})
    /\ sweepTimers = EmptyBag
    /\ probeTimer = UNDEF
    /\ now = 0
    /\ out = <<>>

(* The control surface alone: requests and their storage writes. *)
InitCtl == InitWith(BOOLEAN, {0}, {DefaultMaxRetries})

NextCtl ==
    \/ Receive(Known \cup {"ping"}, MaxHandled, MaxRequests)
    \/ SaveDone(BOOLEAN)

SpecCtl == InitCtl /\ [][NextCtl]_vars

(* startCapture and stopCapture requests, each completing before the next. *)
NextSeq ==
    \/ Receive({"startCapture", "stopCapture"}, MaxHandledSeq, 1)
    \/ SaveDone(BOOLEAN)

SpecSeq == InitCtl /\ [][NextSeq]_vars

(* startCapture, stopCapture and updateSettings requests, each completing *)
(* before the next begins.                                                 *)
NextSet ==
    \/ Receive({"startCapture", "stopCapture", "updateSettings"}, MaxHandledSet, 1)
    \/ SaveDone(BOOLEAN)

SpecSet == InitCtl /\ [][NextSet]_vars

(* A state of a capturing coordinator: a startCapture request was handled  *)
(* and its write completed, and pre captures were made and uploaded one    *)
(* after another.  n is the persisted count the coordinator started with,  *)
(* r the persisted maxRetries; probed tells whether the first health GET   *)
(* was answered (2xx) or is still in flight.                               *)
Capturing(n, pre, r, probed) ==
    /\ state = [isCapturing |-> TRUE,
                captureInterval |-> DefaultInterval,
                screenshotCount |-> n + pre,
                serverConnected |-> probed,
                lastCaptureTime |-> IF pre = 0 THEN UNDEF ELSE 0,
                captureTimer |-> 1,
                uploadQueue |-> <<>>,
                settings |-> [maxRetries |-> r, captureInterval |-> UNDEF],
                screenshots |-> [i \in 1..pre |-> i]]
    /\ hist = [handled |-> 1, lastToggle |-> "start", fired |-> 0, captures |-> pre,
               misses |-> 0, count0 |-> n, appended |-> [i \in 1..pre |-> i],
               retries |-> [i \in 1..pre |-> 0], posted |-> [i \in 1..pre |-> 1],
               dropped |-> {},
               request |-> [action |-> "startCapture", captureInterval |-> UNDEF,
                            capturing |-> FALSE, armed |-> {},
                                  midSwap |-> FALSE]]
    /\ stored = Persisted(state)
    /\ heap = [i \in 1..pre |-> [id |-> i, retryCount |-> UNDEF, lastRetry |-> UNDEF]]
    /\ timers = {[id |-> 1, period |-> DefaultInterval]}
    /\ inflight = IF probed THEN EmptyBag
                  ELSE SetToBag({[await |-> "health", stack |-> <<>>]})
    /\ sweepTimers = EmptyBag
    /\ probeTimer = IF probed THEN ProbePeriod ELSE UNDEF
    /\ now = 0
    /\ out = <<>>

(* The capture pipeline: ticks that overlap, a server that answers. *)
InitCap == Capturing(2, PreCaptured, DefaultMaxRetries, TRUE)

NextCap ==
    \/ SaveDone({TRUE})
    \/ TimerFire(MaxFiredCap, MaxTicks)
    \/ CaptureDone({"noTab", "badUrl", "throws", "null", "image"})
    \/ FetchDone({"ok", "fail"}, MaxFailedCap)

SpecCap == InitCap /\ [][NextCap]_vars

(* Capture ticks while the server is unreachable: the first health GET is *)
(* unanswered, no upload has failed, so neither sweep nor probe runs.      *)
InitOff == Capturing(0, 0, DefaultMaxRetries, FALSE)

NextOff ==
    \/ SaveDone({TRUE})
    \/ TimerFire(MaxFiredOff, MaxTicks)
    \/ CaptureDone({"noTab", "throws", "image"})

SpecOff == InitOff /\ [][NextOff]_vars

(* Statistics requests during capture: ticks, uploads that succeed or     *)
(* fail, and a stopCapture request.                                        *)
InitStats == \E probed \in BOOLEAN : Capturing(0, 0, DefaultMaxRetries, probed)

NextStats ==
    \/ Receive({"getScreenshotStats", "stopCapture"}, MaxHandledStats, 1)
    \/ SaveDone({TRUE})
    \/ TimerFire(MaxFiredStats, MaxTicks)
    \/ CaptureDone({"image"})
    \/ FetchDone({"ok", "fail"}, MaxFailed)

SpecStats == InitStats /\ [][NextStats]_vars

(* The retry machinery with a stopCapture request. *)
NextStop ==
    \/ Receive({"stopCapture"}, MaxHandledStop, 1)
    \/ SaveDone({TRUE})
    \/ TimerFire(MaxFiredStop, MaxTicksStop)
    \/ CaptureDone({"image"})
    \/ FetchDone({"ok", "fail"}, MaxFailed)
    \/ SweepFire
    \/ ProbeDone({"ok", "error"})
    \/ AdvanceTime(MaxTimeStop)

SpecStop == InitStats /\ [][NextStop]_vars

(* The retry machinery: uploads that fail, the sweep, the probe and its   *)
(* drain, over MaxTime seconds.                                            *)
InitRetry == \E probed \in BOOLEAN, r \in StoredMaxRetries : Capturing(0, 0, r, probed)

NextRetry ==
    \/ SaveDone({TRUE})
    \/ TimerFire(MaxFiredRetry, MaxTicks)
    \/ CaptureDone({"image"})
    \/ FetchDone({"ok", "fail"}, MaxFailed)
    \/ SweepFire
    \/ ProbeDone({"ok", "bad", "error"})
    \/ AdvanceTime(MaxTime)

SpecRetry == InitRetry /\ [][NextRetry]_vars

(* The connectivity probe over more than one period, beside a capture and  *)
(* the sweeps its failed upload starts.                                     *)
NextProbe ==
    \/ SaveDone({TRUE})
    \/ TimerFire(MaxFiredProbe, MaxTicks)
    \/ CaptureDone({"image"})
    \/ FetchDone({"ok", "fail"}, MaxFailedProbe)
    \/ SweepFire
    \/ ProbeFire
    \/ ProbeDone({"ok", "bad", "error"})
    \/ AwaitTimeout(MaxTimeProbe)

SpecProbe == InitStats /\ [][NextProbe]_vars

(* Requests that arrive while an interval swap is under way. *)
NextSwap ==
    \/ Receive({"startCapture", "stopCapture", "updateSettings"}, MaxHandledSwap,
               MaxRequests)
    \/ SaveDone({TRUE})

SpecSwap == InitStats /\ [][NextSwap]_vars

(* The server is down from startup on and stays down: capturing is on,    *)
(* every health GET fails. A timer that is due fires, a storage write, a  *)
(* health GET and a tab capture that are pending settle.                   *)
IsCapturePending(f) == f.await = "capture"

(* weak fairness of CaptureDone, which is enabled exactly when a capture   *)
(* is pending and whose steps are those that settle one                    *)
CaptureSettlesFairly ==
    \/ []<>(CountFrames(IsCapturePending) = 0)
    \/ []<><<CountFrames(IsCapturePending)' < CountFrames(IsCapturePending)>>_vars

InitDown == \E r \in StoredMaxRetries : Capturing(0, 0, r, FALSE)

NextDown ==
    \/ SaveDone({TRUE})
    \/ TimerFire(MaxFiredDown, MaxTicks)
    \/ CaptureDone({"image"})
    \/ ProbeFire
    \/ ProbeDone({"bad", "error"})
    \/ AwaitTimeout(MaxTimeDown)

SpecDown ==
    /\ InitDown
    /\ [][NextDown]_vars
    /\ WF_vars(SaveDone({TRUE}))
    /\ WF_vars(TimerFire(MaxFiredDown, MaxTicks))
    /\ WF_vars(ProbeFire)
    /\ WF_vars(ProbeDone({"bad", "error"}))
    /\ WF_vars(AwaitTimeout(MaxTimeDown))
    /\ CaptureSettlesFairly

(* A drain that runs beside the retry of a sweep: capturing is on, the     *)
(* first probe has found the server, maxRetries is as stored.               *)
InitDrain == \E r \in StoredMaxRetries : Capturing(0, 0, r, TRUE)

NextDrain ==
    \/ SaveDone({TRUE})
    \/ TimerFire(MaxFiredDrain, MaxTicks)
    \/ CaptureDone({"image"})
    \/ FetchDone({"ok", "fail"}, MaxFailedDrain)
    \/ SweepFire
    \/ ProbeFire
    \/ ProbeDone({"ok", "error"})
    \/ AwaitTimeout(MaxTimeDrain)

SpecDrain == InitDrain /\ [][NextDrain]_vars

----------------------------------------------------------------------------
(* Properties. *)

Events(kind) == {i \in DOMAIN out : out[i].e = kind}

NoRequestInFlight == CountFrames(IsRequest) = 0

(* C1: in every reachable state at most one capture interval timer is     *)
(* armed, whatever the interleaving of startCapture, stopCapture and       *)
(* updateSettings requests and of their storage writes.                    *)
C1_AtMostOneTimer == Cardinality(timers) <= 1

(* C2: after any sequence of startCapture/stopCapture requests, each       *)
(* completing before the next begins, the trigger is armed iff the last    *)
(* request that changed the capturing flag was startCapture, and the       *)
(* capturing flag equals "a timer is armed".                               *)
C2_ArmedIffLastToggleStart ==
    (hist.handled > 0 /\ NoRequestInFlight) =>
        /\ (timers # {}) <=> (hist.lastToggle = "start")
        /\ state.isCapturing <=> (timers # {})

SaveFailedInTask == \E j \in Events("saved") : ~out[j].ok

(* C9: a failed durable-store write during startCapture (stopCapture)      *)
(* rolls the capturing flag back, arms (clears) no timer and is answered   *)
(* {success: false}; and these requests fail only in that case.            *)
C9_PersistenceFailureRollsBack ==
    \A i \in Events("response") :
        /\ (out[i].to = "startCapture" /\ SaveFailedInTask) =>
               (~out[i].success /\ ~state.isCapturing /\ timers = {})
        /\ (out[i].to = "stopCapture" /\ SaveFailedInTask) =>
               (~out[i].success /\ state.isCapturing /\ timers # {})
        /\ (out[i].to \in {"startCapture", "stopCapture"} /\ ~out[i].success) =>
               SaveFailedInTask

LastN(s, n) == IF Len(s) <= n THEN s ELSE SubSeq(s, Len(s) - n + 1, Len(s))

ScreenshotIds == [i \in 1..Len(state.screenshots) |-> heap[state.screenshots[i]].id]

(* C3: the list of recent captures never holds more than 10 entries, and   *)
(* it is always the last 10 captures appended, in the order appended: an   *)
(* append to a full list evicts exactly the oldest, so that once 11 were   *)
(* appended the first one's id is gone.                                    *)
C3_RecentCapturesBounded ==
    /\ Len(state.screenshots) <= 10
    /\ ScreenshotIds = LastN(hist.appended, 10)
    /\ Len(hist.appended) >= 11 =>
           \A i \in DOMAIN ScreenshotIds : ScreenshotIds[i] # hist.appended[1]

C3_Witness ==
    /\ Len(hist.appended) >= 12
    /\ \E i \in 1..(Len(hist.appended) - 1) : hist.appended[i] > hist.appended[i + 1]
    /\ CountFrames(IsTick) >= 1

IsUploadingTick(f) == f.await = "fetch" /\ Bottom(f) = "captureScreenshot.afterProcess"

(* C4: screenshotCount is its initial value plus the number of ticks whose *)
(* screenshot primitive returned an image and whose upload step is over;   *)
(* no task decreases it or adds more than one, and skipped and failed      *)
(* ticks leave it alone.                                                   *)
C4_CountMatchesCaptures ==
    /\ [](state.screenshotCount
             = hist.count0 + hist.captures - CountFrames(IsUploadingTick))
    /\ [][/\ state'.screenshotCount >= state.screenshotCount
           /\ state'.screenshotCount <= state.screenshotCount + 1
           /\ (\E i \in DOMAIN out' : out'[i].e = "skipped"
                   \/ (out'[i].e = "notify" /\ out'[i].action = "error"))
                => state'.screenshotCount = state.screenshotCount]_vars

C4_Witness ==
    /\ state.screenshotCount = hist.count0 + PreCaptured + 2
    /\ hist.misses = 2
    /\ CountFrames(IsUploadingTick) = 0

UnknownRequested(o) == Len(o) > 0 /\ o[1].e = "request" /\ o[1].action \notin Known

(* C10: a request whose action is none of the six known ones is answered   *)
(* {success: false, error: "Unknown action"} in the task that receives it, *)
(* and that task changes nothing of the coordinator's state.               *)
C10_UnknownActionRejected ==
    [][UnknownRequested(out') =>
          /\ Len(out') = 2
          /\ out'[2] = [e |-> "response", to |-> out'[1].action, success |-> FALSE,
                        error |-> "Unknown action"]
          /\ UNCHANGED <<state, heap, timers, stored, inflight, sweepTimers, probeTimer>>
      ]_vars

C10_Witness ==
    /\ UnknownRequested(out)
    /\ Len(out) = 2
    /\ state.isCapturing
    /\ timers # {}
    /\ CountFrames(IsRequest) > 0

----------------------------------------------------------------------------
(* The retry queue. *)
CaptureIds == 1..hist.captures

QueuedIds == {heap[state.uploadQueue[i]].id : i \in 1..Len(state.uploadQueue)}

(* C5: for every capture id the sweep makes at most settings.maxRetries    *)
(* retry attempts for entries with that id over the whole run, and no      *)
(* queue entry ever has a retryCount greater than settings.maxRetries.     *)
C5_RetriesBounded ==
    /\ \A id \in CaptureIds : hist.retries[id] <= state.settings.maxRetries
    /\ \A i \in 1..Len(state.uploadQueue) :
           OrZero(heap[state.uploadQueue[i]].retryCount) <= state.settings.maxRetries

(* C6: after a sweep retry or a probe drain in which the POST for an item  *)
(* returned 2xx, no entry with that capture id remains in the retry queue. *)
C6_RemovedOnSuccess ==
    \A i \in Events("upload") :
        (out[i].ok /\ out[i].via \in {"sweep", "drain"}) => out[i].id \notin QueuedIds

(* C7: the sweep retries an entry only when now - lastRetry is at least    *)
(* 2^retryCount seconds, and never retries one entry twice in one pass.    *)
C7_BackoffRespected ==
    /\ \A i \in Events("retry") :
           out[i].lastRetry # UNDEF => out[i].at - out[i].lastRetry >= Pow2(out[i].retryCount)
    /\ \A i, j \in Events("retry") : i # j => out[i].ref # out[j].ref

(* C8: once the sweep has dropped an entry at retryCount = maxRetries, no  *)
(* entry with that capture id is in the queue, none is uploaded again and  *)
(* none re-enters the queue later.                                         *)
C8_DroppedStaysDropped ==
    [][/\ \A id \in hist.dropped' : id \notin QueuedIds'
       /\ \A id \in hist.dropped :
              \A i \in 1..Len(out') :
                  out'[i].e \in {"retry", "upload", "shortCircuit"} => out'[i].id # id]_vars

----------------------------------------------------------------------------
(* The probe drain. *)

(* a processUploadQueue call awaiting a POST, with items still to come *)
IsUnfinishedDrain(f) ==
    /\ Bottom(f) = "processUploadQueue.afterUpload"
    /\ f.stack[Len(f.stack)].items # <<>>

(* C11: when a probe finds the server reachable with a non-empty queue,    *)
(* every item of the drain gets a POST (none is merely put back in the     *)
(* queue, also after an earlier item of the drain failed), and no sweep    *)
(* tick runs while items of the drain still wait for their POST.           *)
C11_DrainAttemptsAll ==
    /\ \A i \in Events("shortCircuit") : out[i].via # "drain"
    /\ Events("sweep") # {} => CountFrames(IsUnfinishedDrain) = 0

----------------------------------------------------------------------------
(* The interval swap. *)

SwapAnswered ==
    /\ \E i \in Events("response") : out[i].to = "updateSettings"
    /\ hist.request.captureInterval # UNDEF
    /\ hist.request.capturing

(* C12: an updateSettings request that carries a capture interval and is   *)
(* received while capturing ends with capturing still true and exactly one *)
(* timer armed, at the new interval; a timer that was armed at another     *)
(* period is cleared.                                                      *)
C12_IntervalSwap ==
    SwapAnswered =>
        /\ state.isCapturing
        /\ Cardinality(timers) = 1
        /\ \A t \in timers : /\ t.period = hist.request.captureInterval
                              /\ t.id = state.captureTimer
        /\ \A t \in hist.request.armed :
               t.period # hist.request.captureInterval => t \notin timers

C12_Witness ==
    /\ SwapAnswered
    /\ hist.request.captureInterval = 3000
    /\ \E t \in hist.request.armed : t.period = DefaultInterval
    /\ \E t \in timers : t.period = 3000

----------------------------------------------------------------------------
(* Capturing while unreachable. *)

IsPost(f) == f.await = "fetch"

(* C13: while serverConnected is false every successful capture tick makes *)
(* no POST, leaves serverConnected false, appends exactly one entry for    *)
(* its capture to the queue, with retry count 0, and adds one to           *)
(* screenshotCount: after N such ticks the queue holds N entries and the   *)
(* count is N.                                                             *)
C13_QueuedWhileUnreachable ==
    /\ ~state.serverConnected
    /\ CountFrames(IsPost) = 0
    /\ Len(state.uploadQueue) = hist.captures
    /\ \A i \in 1..Len(state.uploadQueue) :
           /\ heap[state.uploadQueue[i]].id = i
           /\ OrZero(heap[state.uploadQueue[i]].retryCount) = 0
    /\ state.screenshotCount = hist.count0 + hist.captures

C13_Witness ==
    /\ ~state.serverConnected
    /\ Len(state.uploadQueue) = 3
    /\ state.screenshotCount = 3
    /\ hist.fired = 4

----------------------------------------------------------------------------
(* Statistics. *)

Requested(o, action) == Len(o) > 0 /\ o[1].e = "request" /\ o[1].action = action

(* C14: the response to getScreenshotStats is made in the task that        *)
(* receives the request and equals the state of that moment: the count,    *)
(* the length of the recent captures, the length of the queue, and the     *)
(* capturing and serverConnected flags.                                    *)
C14_StatsReflectState ==
    [][Requested(out', "getScreenshotStats") =>
          /\ Len(out') = 2
          /\ out'[2] = [e |-> "response", to |-> "getScreenshotStats", success |-> TRUE,
                        totalScreenshots |-> state.screenshotCount,
                        screenshotsInMemory |-> Len(state.screenshots),
                        uploadQueueSize |-> Len(state.uploadQueue),
                        lastCaptureTime |-> state.lastCaptureTime,
                        isCapturing |-> state.isCapturing,
                        serverConnected |-> state.serverConnected]
          /\ state' = state
      ]_vars

C14_Witness ==
    /\ Requested(out, "getScreenshotStats")
    /\ out[2].totalScreenshots = 2
    /\ out[2].uploadQueueSize = 1
    /\ out[2].screenshotsInMemory = 2
    /\ ~out[2].isCapturing
    /\ stored.screenshotCount # state.screenshotCount

----------------------------------------------------------------------------
(* Failed ticks. *)

ErrorNotified(o) == \E i \in DOMAIN o : o[i].e = "notify" /\ o[i].action = "error"

(* C15: a tick whose screenshot primitive throws or returns nothing adds   *)
(* nothing to screenshotCount and notifies an error, and the timer stays   *)
(* armed and the capturing flag true; the error is notified for such ticks *)
(* only.                                                                   *)
C15_FailedTickKeepsTrigger ==
    [][/\ (hist'.misses = hist.misses + 1 /\ \A i \in DOMAIN out' : out'[i].e # "skipped")
            => ErrorNotified(out')
       /\ ErrorNotified(out') =>
              /\ hist'.misses = hist.misses + 1
              /\ state'.screenshotCount = state.screenshotCount
              /\ timers' = timers /\ timers' # {}
              /\ state'.captureTimer = state.captureTimer
              /\ state'.isCapturing
      ]_vars

C15_Witness ==
    /\ ErrorNotified(out)
    /\ hist.misses = 2
    /\ hist.fired < MaxFiredCap
    /\ timers # {}

----------------------------------------------------------------------------
(* The sweep loop. *)

(* a scheduleRetry pass awaiting the upload of one of its items *)
IsSweepPass(f) == Bottom(f) = "scheduleRetry.afterUpload"

(* C16: from startup on exactly one next sweep is scheduled (or one pass   *)
(* is under way and will schedule it), whether or not the queue is empty,  *)
(* capturing is on, or an upload has failed.                                *)
C16_OneSweepScheduled ==
    BagCardinality(sweepTimers) + CountFrames(IsSweepPass) = 1

----------------------------------------------------------------------------
(* Stopping capture. *)

StopRan(o) ==
    \/ Requested(o, "stopCapture")
    \/ \E i \in DOMAIN o : /\ o[i].e = "notify" /\ o[i].action = "statusUpdate"
                            /\ "isCapturing" \in DOMAIN o[i] /\ ~o[i].isCapturing

SweepsAlive == BagCardinality(sweepTimers) + CountFrames(IsSweepPass)

IsProbe(f) == f.await = "health"

----------------------------------------------------------------------------
(* The capture period. *)

(* C18: the capture interval, and the period of every armed timer, is at   *)
(* least 1000 ms in every reachable state, also after an updateSettings    *)
(* request with a capture interval the options form accepts and sends.     *)
C18_PeriodAtLeastOneSecond ==
    /\ state.captureInterval >= 1000
    /\ \A t \in timers : t.period >= 1000

----------------------------------------------------------------------------
(* Idempotent toggles. *)

(* C19: startCapture received while capturing, and stopCapture received    *)
(* while not capturing, change no state field and no timer, write nothing  *)
(* to storage, notify nothing and are answered {success: true}.            *)
C19_TogglesIdempotent ==
    [][((Requested(out', "startCapture") /\ state.isCapturing)
          \/ (Requested(out', "stopCapture") /\ ~state.isCapturing)) =>
          /\ Len(out') = 2
          /\ out'[2] = [e |-> "response", to |-> out'[1].action, success |-> TRUE]
          /\ UNCHANGED <<state, heap, timers, stored, inflight, sweepTimers, probeTimer>>
      ]_vars

C19_Witness ==
    /\ Requested(out, "startCapture")
    /\ hist.request.capturing
    /\ hist.request.armed # {}
    /\ Len(out) = 2
    /\ timers = hist.request.armed

----------------------------------------------------------------------------
(* Sweep retries and the short-circuit. *)

(* C20: a sweep retry of an eligible entry within its budget always makes  *)
(* a POST for that entry, also while serverConnected is false; it is never *)
(* answered by the short-circuit, which only puts the entry back.          *)
C20_SweepRetryPosts ==
    \A i \in Events("retry") :
        ~\E j \in Events("shortCircuit") :
            j > i /\ out[j].via = "sweep" /\ out[j].ref = out[i].ref

----------------------------------------------------------------------------
(* The outcome of a POST. *)

UploadSettled(o, ok) == Len(o) >= 2 /\ o[1].e = "upload" /\ o[1].ok = ok

Occurrences(q, r) == Cardinality({i \in 1..Len(q) : q[i] = r})

(* C21: a failed POST appends one new queue entry for its capture, with    *)
(* retryCount 0 and lastRetry = now, sets serverConnected false and        *)
(* notifies "disconnected"; a successful one sets serverConnected true,    *)
(* notifies "connected" and appends nothing; in both cases the caller      *)
(* goes on as after a normal return.                                       *)
C21_UploadOutcome ==
    [][/\ UploadSettled(out', FALSE) =>
              /\ Len(heap') = Len(heap) + 1
              /\ heap'[Len(heap')] = [id |-> out'[1].id, retryCount |-> 0,
                                      lastRetry |-> now]
              /\ Occurrences(state'.uploadQueue, Len(heap')) = 1
              /\ ~state'.serverConnected
              /\ out'[2] = [e |-> "notify", action |-> "statusUpdate",
                            serverStatus |-> "disconnected"]
       /\ UploadSettled(out', TRUE) =>
              /\ heap' = heap
              /\ Len(state'.uploadQueue) <= Len(state.uploadQueue)
              /\ \A i \in 1..Len(state'.uploadQueue) :
                     Occurrences(state.uploadQueue, state'.uploadQueue[i]) > 0
              /\ state'.serverConnected
              /\ out'[2] = [e |-> "notify", action |-> "statusUpdate",
                            serverStatus |-> "connected"]
       /\ (Len(out') > 0 /\ out'[1].e = "upload" /\ out'[1].via = "capture") =>
              /\ hist'.appended = Append(hist.appended, out'[1].id)
              /\ state'.screenshotCount = state.screenshotCount + 1
      ]_vars

----------------------------------------------------------------------------
(* The connectivity probe. *)

ProbesPending == (IF probeTimer # UNDEF THEN 1 ELSE 0) + CountFrames(IsProbe)

ProbeSettled(o) == Len(o) > 0 /\ o[1].e = "probe"

(* C22: when a health GET settles, serverConnected becomes true iff the    *)
(* answer was 2xx, a statusUpdate with that status is emitted and the next *)
(* probe is scheduled one period ahead, whatever the outcome; in every     *)
(* reachable state exactly one probe is pending (its timer waiting, or its *)
(* GET in flight).                                                          *)
C22_ProbeReschedules ==
    /\ [](ProbesPending = 1)
    /\ [][ProbeSettled(out') =>
              /\ state'.serverConnected = (out'[1].result = "ok")
              /\ \E i \in DOMAIN out' :
                     /\ out'[i].e = "notify"
                     /\ out'[i].action = "statusUpdate"
                     /\ out'[i].serverStatus = IF out'[1].result = "ok"
                                               THEN "connected" ELSE "disconnected"
              /\ probeTimer' = now + ProbePeriod
         ]_vars

C22_Witness ==
    /\ ProbeSettled(out)
    /\ out[1].result = "error"
    /\ now >= ProbePeriod
    /\ sweepTimers # EmptyBag

----------------------------------------------------------------------------
(* The probe drain. *)

IsDrain(f) == Bottom(f) = "processUploadQueue.afterUpload"

IdsOf(refs, h) == {h[refs[i]].id : i \in 1..Len(refs)}

(* the capture ids a suspended call still holds: the object of its POST,   *)
(* the items its loop has yet to visit                                      *)
HeldIds ==
    UNION {UNION {(IF "ref" \in DOMAIN f.stack[k]
                   THEN {heap[f.stack[k].ref].id} ELSE {})
                  \cup (IF "items" \in DOMAIN f.stack[k]
                        THEN IdsOf(f.stack[k].items, heap) ELSE {})
                  : k \in 1..Len(f.stack)}
           : f \in Frames}

UploadedIds == {id \in CaptureIds : hist.posted[id] > 0}

DrainFinishes(f) ==
    /\ IsDrain(f)
    /\ Len(out') > 0
    /\ out'[1].e = "upload"
    /\ out'[1].via = "drain"
    /\ f.stack[1].ref = out'[1].ref
    /\ CountFrames(IsDrain)' < CountFrames(IsDrain)

(* C23: when a drain finishes, every item of its snapshot has been         *)
(* uploaded successfully or has an entry in the retry queue; and in every  *)
(* reachable state every capture handed to the upload pipeline, also one   *)
(* made by a tick during a drain, is uploaded, queued, or still held by a  *)
(* suspended upload, drain or sweep; the only entries that leave without  *)
(* an upload are those the sweep gives up after maxRetries.                *)
C23_DrainConserves ==
    /\ [](IdsOf([i \in 1..Len(heap) |-> i], heap)
             \subseteq UploadedIds \cup QueuedIds \cup HeldIds \cup hist.dropped)
    /\ [][\A f \in Frames :
              DrainFinishes(f) =>
                  IdsOf(f.stack[Len(f.stack)].itemsToProcess, heap)
                      \subseteq UploadedIds' \cup QueuedIds'
         ]_vars

----------------------------------------------------------------------------
(* Ticks that find nothing to capture. *)

(* C24: a tick that finds no active tab, or a tab whose URL is empty or    *)
(* internal to the browser, takes no screenshot, emits no notification     *)
(* and leaves screenshotCount, lastCaptureTime, the recent screenshots,    *)
(* the retry queue, serverConnected, the timers and the store unchanged.   *)
C24_SkippedTickSilent ==
    [][Events("skipped")' # {} =>
          /\ Len(out') = 1
          /\ state' = state
          /\ heap' = heap
          /\ timers' = timers
          /\ stored' = stored
          /\ hist'.captures = hist.captures
          /\ CountFrames(IsTick)' = CountFrames(IsTick) - 1
      ]_vars

C24_Witness ==
    /\ Events("skipped") # {}
    /\ out[1].why = "badUrl"
    /\ Len(state.uploadQueue) > 0
    /\ state.screenshotCount > hist.count0 + PreCaptured
    /\ CountFrames(IsTick) > 0

----------------------------------------------------------------------------
(* The read requests. *)

ReadRequests == {"getState", "getSettings", "getScreenshotStats"}

(* C25: handling getState, getSettings or getScreenshotStats changes no    *)
(* state field, no timer, not the retry queue nor its entries, not the     *)
(* store and no call in flight, and emits only the response.               *)
C25_ReadsHaveNoEffect ==
    [][(\E a \in ReadRequests : Requested(out', a)) =>
          /\ state' = state
          /\ heap' = heap
          /\ timers' = timers
          /\ sweepTimers' = sweepTimers
          /\ probeTimer' = probeTimer
          /\ stored' = stored
          /\ inflight' = inflight
          /\ Events("notify")' = {}
          /\ Len(out') = 2
          /\ out'[2].e = "response"
      ]_vars

C25_Witness ==
    /\ Requested(out, "getState")
    /\ state.isCapturing
    /\ timers # {}
    /\ CountFrames(IsRequest) > 0
    /\ stored # Persisted(state)

----------------------------------------------------------------------------
(* The store against the memory. *)

(* loadState, lines 29-43: the constructor's state overwritten by the keys *)
(* found in the store (serverUrl is never assigned after construction and  *)
(* is left out of the model)                                               *)
loadState(st) ==
    [isCapturing |-> st.isCapturing,
     captureInterval |-> st.captureInterval,
     screenshotCount |-> st.screenshotCount,
     serverConnected |-> FALSE,
     lastCaptureTime |-> UNDEF,
     captureTimer |-> NoTimer,
     uploadQueue |-> <<>>,
     settings |-> st.settings,
     screenshots |-> <<>>]

Quiet == \A f \in Frames : f.await = "health"

(* C26: once a startCapture, stopCapture or updateSettings request has     *)
(* completed and nothing else is in flight, the store holds the in-memory  *)
(* values of isCapturing, captureInterval, screenshotCount and settings,   *)
(* and a restart that loads the store gets those values back.              *)
C26_StoreMatchesMemory ==
    (/\ hist.request.action \in {"startCapture", "stopCapture", "updateSettings"}
     /\ Quiet) =>
        /\ stored = Persisted(state)
        /\ Persisted(loadState(stored)) = Persisted(state)

----------------------------------------------------------------------------
(* The flag against the timer. *)

(* C27: whenever isCapturing is true and no startCapture or stopCapture is *)
(* mid-execution a capture timer is armed, also right after a startup that *)
(* loaded isCapturing = true from the store; and a startCapture request    *)
(* that is answered with success leaves a timer armed.                     *)
C27_CapturingMeansArmed ==
    /\ (state.isCapturing /\ NoRequestInFlight) => timers # {}
    /\ \A i \in Events("response") :
           (out[i].to = "startCapture" /\ out[i].success) => timers # {}

----------------------------------------------------------------------------
(* A stop during the interval swap. *)

(* C28: when the last request handled was a stopCapture that arrived while *)
(* an updateSettings was between its stopCapture and its startCapture, and *)
(* every request has completed, isCapturing is false and no capture timer  *)
(* is armed.                                                               *)
C28_StopWinsOverSwap ==
    (/\ hist.request.action = "stopCapture"
     /\ hist.request.midSwap
     /\ Quiet) =>
        (~state.isCapturing /\ timers = {})

----------------------------------------------------------------------------
(* The entries of the retry queue. *)

(* C29: in every reachable state the retry queue holds at most one entry   *)
(* per capture id, be it the same object twice or an object and a copy.    *)
C29_OneEntryPerCapture ==
    \A i, j \in 1..Len(state.uploadQueue) :
        heap[state.uploadQueue[i]].id = heap[state.uploadQueue[j]].id => i = j

----------------------------------------------------------------------------
(* Leaving the retry queue. *)

----------------------------------------------------------------------------
(* Uploads that reach the server. *)

(* C31: for each capture id at most one POST returns 2xx over the whole    *)
(* run: once a capture is uploaded neither the sweep nor a drain posts it  *)
(* again.                                                                  *)
C31_AtMostOneUpload == \A id \in CaptureIds : hist.posted[id] <= 1

----------------------------------------------------------------------------
(* The retry budget. *)

(* the objects a suspended call still holds: the object of its POST, the   *)
(* items its loop has yet to visit                                          *)
HeldRefs ==
    UNION {UNION {(IF "ref" \in DOMAIN f.stack[k] THEN {f.stack[k].ref} ELSE {})
                  \cup (IF "items" \in DOMAIN f.stack[k]
                        THEN {f.stack[k].items[i] : i \in 1..Len(f.stack[k].items)}
                        ELSE {})
                  : k \in 1..Len(f.stack)}
           : f \in Frames}

QueuedRefs == {state.uploadQueue[i] : i \in 1..Len(state.uploadQueue)}

(* the retryCount values recorded for a capture: in its queue entries and  *)
(* in entries a running drain or sweep has taken and not yet settled       *)
RetryCounts(id) ==
    {OrZero(heap[r].retryCount) :
        r \in {q \in QueuedRefs \cup HeldRefs : heap[q].id = id}}

SetMax(S) == CHOOSE x \in S : \A y \in S : y <= x

(* C32: for every capture id the retryCount recorded for it never          *)
(* decreases from one state to the next while the capture stays in the     *)
(* retry machinery (not yet uploaded, not given up), also when a sweep     *)
(* retry or a drain attempt for it fails: the largest retryCount among its *)
(* entries does not go down.                                               *)
C32_BudgetNeverReset ==
    [][\A id \in CaptureIds :
          (/\ RetryCounts(id) # {}
           /\ RetryCounts(id)' # {}
           /\ id \notin hist'.dropped
           /\ hist'.posted[id] = 0) =>
              SetMax(RetryCounts(id)') >= SetMax(RetryCounts(id))
      ]_vars

----------------------------------------------------------------------------
Completes == {i \in DOMAIN out : /\ out[i].e = "notify"
                                 /\ out[i].action = "captureComplete"}

(* C33: each successful capture emits exactly one captureComplete           *)
(* notification, and it carries the count that capture's own increment     *)
(* produced, so successive notifications carry counts increasing by one,   *)
(* also when ticks overlap at their persistence write.  The write a tick   *)
(* awaits is issued right after its increment (lines 224-225), so when the *)
(* write has settled the store holds the count of that increment.          *)
C33_CompleteCarriesOwnCount ==
    /\ Cardinality(Completes) <= 1
    /\ \A i \in Completes : out[i].screenshotCount = stored.screenshotCount

----------------------------------------------------------------------------
(* a startCapture request received while not capturing has been answered *)
StartAnswered ==
    /\ \E i \in Events("response") : out[i].to = "startCapture"
    /\ ~hist.request.capturing

(* C34: a capture interval set through updateSettings takes effect: once   *)
(* an updateSettings has supplied an interval, the next startCapture arms  *)
(* the trigger at that interval, and when its write succeeds the persisted *)
(* capture interval equals it.  Here settings.captureInterval is the last  *)
(* interval an updateSettings supplied (line 402).                         *)
C34_SetIntervalTakesEffect ==
    (StartAnswered /\ state.settings.captureInterval # UNDEF) =>
        /\ \A t \in timers : t.period = state.settings.captureInterval
        /\ (\E i \in Events("saved") : out[i].ok) =>
               stored.captureInterval = state.settings.captureInterval

----------------------------------------------------------------------------
(* The whole coordinator: every control request beside a capture tick, the *)
(* sweep, the first probe and its drain.                                    *)
NextBook ==
    \/ Receive(Known \cup {"ping"}, MaxHandledBook, 1)
    \/ SaveDone({TRUE})
    \/ TimerFire(MaxFiredBook, MaxTicksStop)
    \/ CaptureDone({"image"})
    \/ FetchDone({"ok", "fail"}, MaxFailedBook)
    \/ SweepFire
    \/ ProbeDone({"ok", "error"})
    \/ AwaitTimeout(MaxTimeBook)

SpecBook == InitStats /\ [][NextBook]_vars

(* screenshotCount, lastCaptureTime and the captures held in screenshots *)
Bookkeeping ==
    <<state.screenshotCount, state.lastCaptureTime,
      [i \in DOMAIN state.screenshots |-> heap[state.screenshots[i]].id]>>

(* the task resumes a suspended capture tick *)
TickResumed ==
    \E f \in Frames : IsTick(f) /\ CopiesIn(f, inflight') < CopiesIn(f, inflight)

----------------------------------------------------------------------------
(* The control surface with every action, known and unknown, and with an   *)
(* updateSettings message that has no settings; requests overlap.          *)
NextReply ==
    \/ Receive(Known \cup {"ping"}, MaxHandledReply, MaxRequests)
    \/ ReceiveBare(MaxHandledReply, MaxRequests)
    \/ SaveDone(BOOLEAN)

SpecReply == InitCtl /\ [][NextReply]_vars

Responses == {i \in DOMAIN out : out[i].e = "response" /\ out[i].success \in BOOLEAN}

(* C36: every request handled by handleMessage gets exactly one response   *)
(* {success: bool, ...}, for every action, known or unknown, also when the *)
(* handler throws part-way: in every task the responses sent are as many   *)
(* as the requests that stop being pending in it (the one received in the  *)
(* task counts as pending), so a request is never answered twice and never *)
(* ends unanswered.                                                        *)
C36_OneResponsePerRequest ==
    [][/\ Cardinality({i \in DOMAIN out' : out'[i].e = "response"
                                            /\ out'[i].success \in BOOLEAN})
            = CountFrames(IsRequest) + (hist'.handled - hist.handled)
              - BagCardinality([f \in {g \in BagToSet(inflight') : IsRequest(g)}
                                  |-> inflight'[f]])
       /\ \A i \in DOMAIN out' :
              out'[i].e = "response" =>
                 \/ out'[i].to = hist'.request.action /\ hist'.handled > hist.handled
                 \/ \E f \in Frames : /\ IsRequest(f)
                                      /\ f.stack[Len(f.stack)].action = out'[i].to
                                      /\ CopiesIn(f, inflight') < CopiesIn(f, inflight)
      ]_vars

(* the updateSettings without settings was answered by the catch *)
C36_Witness ==
    /\ \E i \in Responses : /\ out[i].to = "updateSettings"
                            /\ ~out[i].success
    /\ hist.handled = MaxHandledReply
    /\ CountFrames(IsRequest) > 0

====
